---- MODULE Spec2Model ----
(***************************************************************************)
(* Model of vixcpp/p2p_http (src/src/P2PHttp.cpp and its headers).         *)
(*                                                                         *)
(* Seven specifications share the module:                                    *)
(*   SpecLog   - the LogBuffer class under concurrent push and dump calls, *)
(*               for every capacity it can be constructed with;            *)
(*   Spec      - registerRoutes, the detached sampling thread it starts    *)
(*               and shutdown_live_logs, over the process-wide g_logs,     *)
(*               g_tick_started and g_tick_stop;                           *)
(*   SpecLoop  - the sampling thread alone, against a runtime whose nine   *)
(*               counters all move;                                        *)
(*   SpecAuth  - requests to the routes registerRoutes installs, in both   *)
(*               builds (with and without VIX_P2P_HTTP_WITH_MIDDLEWARE);   *)
(*   SpecChain - install_route_middlewares applied to every combination of *)
(*               RouteOptions, in the build that has it;                   *)
(*   SpecPeers - requests to GET {prefix}/peers against a directory whose  *)
(*               keys the runtime may replace, as the steady clock runs;   *)
(*   SpecJoin  - join_prefix, called on any base and path and called by    *)
(*               registerRoutes for each of its routes under any prefix.   *)
(* Text is modelled as sequences of character codes where its layout       *)
(* matters (LogBuffer::dump), as sequences of characters for the paths of  *)
(* join_prefix, and as strings elsewhere.                                  *)
(***************************************************************************)
EXTENDS Integers, Sequences, FiniteSets, TLC

VARIABLES
  \* ---- LogBuffer (P2PHttp.cpp:46-72) and the process
  cap_,          \* LogBuffer::cap_
  lines_,        \* LogBuffer::lines_ (std::deque<std::string>)
  mu_,           \* LogBuffer::mu_: 0 when free, else the thread holding it
  crashed,       \* the process was aborted (std::terminate, corrupted deque)
  pushed,        \* history: every line handed to push_back, in order
  \* ---- threads calling LogBuffer::push / LogBuffer::dump (SpecLog)
  tpc,           \* position of each thread
  targ,          \* push's parameter `line`
  oss,           \* dump's std::ostringstream
  it,            \* dump's position in lines_
  ret,           \* value returned by the thread's last dump
  seen,          \* history: contents of lines_ since the thread called dump
  npush,         \* calls to push made by the thread
  ndump,         \* calls to dump made by the thread
  \* ---- registerRoutes and the sampling thread (Spec)
  g_tick_started,
  g_tick_stop,
  rpc,           \* position of each registerRoutes caller
  ropt,          \* the P2PHttpOptions each caller passes
  rrt,           \* the runtime each caller passes
  kpc,           \* position of the sampling thread
  every,         \* captured interval of the sampling thread
  rt,            \* captured runtime of the sampling thread
  last,          \* the sampling thread's `last`
  loops,         \* history: sampling threads started
  ticks,         \* history: iterations of the sampling loop
  slept,         \* history: argument of the last sleep_for
  lastRound,     \* history: what the last completed iteration saw and did
  stopSeen,      \* history: shutdown_live_logs was called at least once
  afterStop,     \* history: lines the loop pushed since g_tick_stop was last set
  roundsAfterStop, \* history: loop bodies run since g_tick_stop was last set
  qualDone,      \* history: calls with both enable flags set that have returned
  reports,       \* the snapshots the runtime's runtime_stats() can return
  \* ---- requests (SpecAuth)
  middleware,    \* VIX_P2P_HTTP_WITH_MIDDLEWARE is defined
  opt,           \* the P2PHttpOptions registerRoutes was given
  req,           \* the request in flight
  res,           \* its response
  served,        \* requests completed
  \* ---- GET {prefix}/peers (SpecPeers)
  node,          \* runtime.node() is not null
  dir,           \* the peer directory: peer identifier -> Peer
  clock,         \* std::chrono::steady_clock, in ticks
  calls,         \* history: the last two requests served, each with what it read
                 \* and answered
  shuffled,      \* history: the last request iterated the snapshot in an order
                 \* other than the ascending one
  rekeys,        \* history: the times the keys of a peer were replaced
  \* ---- join_prefix (SpecJoin)
  prefix,        \* P2PHttpOptions::prefix
  jbase,         \* the argument `base` of the last join_prefix call
  jpath,         \* the argument `path` of the last join_prefix call
  jret,          \* the value the last join_prefix call returned
  jpc            \* "idle" before the first call, "joined" after a call

logVars  == <<cap_, lines_, mu_, crashed, pushed>>
thrVars  == <<tpc, targ, oss, it, ret, seen, npush, ndump>>
tickVars == <<g_tick_started, g_tick_stop, rpc, ropt, rrt, kpc, every, rt, last,
              loops, ticks, slept, lastRound, stopSeen, afterStop,
              roundsAfterStop, qualDone, reports>>
authVars == <<middleware, opt, req, res, served>>
peerVars == <<node, dir, clock, calls, shuffled, rekeys>>
joinVars == <<prefix, jbase, jpath, jret, jpc>>
vars     == <<logVars, thrVars, tickVars, authVars, peerVars, joinVars>>

-----------------------------------------------------------------------------
(* Bounds of the model *)

\* largest capacity a LogBuffer is constructed with in SpecLog
MaxCap == 2
\* calls to push per writer
MaxPushes == 2
\* calls to dump per reader
MaxDumps == 2

\* concurrent calls of registerRoutes
NumCallers == 2
\* iterations of the sampling loop
MaxTicks == 2
\* largest value a runtime counter takes
MaxCounter == 1
\* requests served in SpecAuth
MaxRequests == 2

\* the threads of SpecLog: two that push (the sampling thread and a caller of
\* registerRoutes) and one that dumps (the handler of GET {prefix}/logs)
Writers == {1, 2}
Readers == {3}
Threads == Writers \cup Readers

-----------------------------------------------------------------------------
(* Text *)

\* the line break dump writes after each line
NL == 10

Min(a, b) == IF a <= b THEN a ELSE b

\* the last n elements of s
LastN(s, n) == SubSeq(s, Len(s) - n + 1, Len(s))

\* the k-th line writer w pushes: two characters, the writer's letter and a digit
WriterLine(w, k) == <<64 + w, 48 + k>>

\* the writer a line of WriterLine comes from, and its number
LineWriter(l) == l[1] - 64
LineNo(l) == l[2] - 48

\* the lines of a text in which every line ends with NL
RECURSIVE SplitLines(_, _)
SplitLines(s, cur) ==
  IF s = <<>> THEN (IF cur = <<>> THEN <<>> ELSE <<cur>>)
  ELSE IF Head(s) = NL THEN <<cur>> \o SplitLines(Tail(s), <<>>)
  ELSE SplitLines(Tail(s), Append(cur, Head(s)))

-----------------------------------------------------------------------------
(* LogBuffer *)

\* one pass of dump's loop body: oss << l << "\n"
MutantOssAppendNoBreak(o, l) == o \o l
OssAppend(o, l) == o \o l \o <<NL>>

\* dump() of a buffer holding ls, computed as the loop computes it
RECURSIVE DumpOf(_)
DumpOf(ls) == IF ls = <<>> THEN <<>> ELSE OssAppend(<<>>, Head(ls)) \o DumpOf(Tail(ls))

\* std::lock_guard's constructor can take mu_
MutantNoLock(t) == TRUE
CanLock(t) == mu_ = 0

\* push's test lines_.size() >= cap_
IsFull(ls, cap) == Len(ls) >= cap

\* lines_.push_back(std::move(line))
MutantPushFront(ls, line) == <<line>> \o ls
PushBack(ls, line) == Append(ls, line)

\* What push leaves in lines_. pop_front() on an empty deque (cap_ = 0) is
\* undefined: the deque's bookkeeping is skewed and the new element is lost, or the
\* pop does nothing and the element stays, or the process is aborted.
PushOutcomes(ls, cap, line) ==
  IF IsFull(ls, cap)
    THEN IF ls = <<>>
           THEN {[abort |-> FALSE, lines |-> <<>>],
                 [abort |-> FALSE, lines |-> PushBack(ls, line)],
                 [abort |-> TRUE, lines |-> ls]}
           ELSE {[abort |-> FALSE, lines |-> PushBack(Tail(ls), line)]}
    ELSE {[abort |-> FALSE, lines |-> PushBack(ls, line)]}

\* every thread inside dump records the new content
Observe(new) ==
  [t \in Threads |-> IF tpc[t] \in {"dump_lock", "dump_loop"}
                       THEN seen[t] \cup {new} ELSE seen[t]]

\* push: std::lock_guard<std::mutex> lock(mu_)
PushLock(t) ==
  /\ ~crashed
  /\ t \in Writers
  /\ tpc[t] = "idle"
  /\ npush[t] < MaxPushes
  /\ CanLock(t)
  /\ mu_' = t
  /\ tpc' = [tpc EXCEPT ![t] = "push_body"]
  /\ targ' = [targ EXCEPT ![t] = WriterLine(t, npush[t])]
  /\ npush' = [npush EXCEPT ![t] = @ + 1]
  /\ UNCHANGED <<cap_, lines_, crashed, pushed, oss, it, ret, seen, ndump>>
  /\ UNCHANGED <<tickVars, authVars, peerVars, joinVars>>

\* push: if (lines_.size() >= cap_) lines_.pop_front(); lines_.push_back(line)
PushBody(t) ==
  /\ ~crashed
  /\ tpc[t] = "push_body"
  /\ \E out \in PushOutcomes(lines_, cap_, targ[t]) :
       /\ pushed' = Append(pushed, targ[t])
       /\ crashed' = out.abort
       /\ lines_' = out.lines
       /\ seen' = Observe(out.lines)
  /\ tpc' = [tpc EXCEPT ![t] = "push_unlock"]
  /\ UNCHANGED <<cap_, mu_, targ, oss, it, ret, npush, ndump>>
  /\ UNCHANGED <<tickVars, authVars, peerVars, joinVars>>

\* push returns: the lock_guard releases mu_
PushUnlock(t) ==
  /\ ~crashed
  /\ tpc[t] = "push_unlock"
  /\ mu_' = 0
  /\ tpc' = [tpc EXCEPT ![t] = "idle"]
  /\ UNCHANGED <<cap_, lines_, crashed, pushed, targ, oss, it, ret, seen, npush, ndump>>
  /\ UNCHANGED <<tickVars, authVars, peerVars, joinVars>>

\* a thread calls dump
DumpCall(t) ==
  /\ ~crashed
  /\ t \in Readers
  /\ tpc[t] = "idle"
  /\ ndump[t] < MaxDumps
  /\ tpc' = [tpc EXCEPT ![t] = "dump_lock"]
  /\ ndump' = [ndump EXCEPT ![t] = @ + 1]
  /\ seen' = [seen EXCEPT ![t] = {lines_}]
  /\ UNCHANGED <<logVars, targ, oss, it, ret, npush>>
  /\ UNCHANGED <<tickVars, authVars, peerVars, joinVars>>

\* dump: std::lock_guard<std::mutex> lock(mu_); std::ostringstream oss
DumpLock(t) ==
  /\ ~crashed
  /\ tpc[t] = "dump_lock"
  /\ CanLock(t)
  /\ mu_' = t
  /\ tpc' = [tpc EXCEPT ![t] = "dump_loop"]
  /\ oss' = [oss EXCEPT ![t] = <<>>]
  /\ it' = [it EXCEPT ![t] = 1]
  /\ UNCHANGED <<cap_, lines_, crashed, pushed, targ, ret, seen, npush, ndump>>
  /\ UNCHANGED <<tickVars, authVars, peerVars, joinVars>>

\* dump: one pass of for (const auto &l : lines_) oss << l << "\n"
DumpStep(t) ==
  /\ ~crashed
  /\ tpc[t] = "dump_loop"
  /\ it[t] <= Len(lines_)
  /\ oss' = [oss EXCEPT ![t] = OssAppend(@, lines_[it[t]])]
  /\ it' = [it EXCEPT ![t] = @ + 1]
  /\ UNCHANGED <<logVars, tpc, targ, ret, seen, npush, ndump>>
  /\ UNCHANGED <<tickVars, authVars, peerVars, joinVars>>

\* dump: the loop is over; return oss.str(), releasing mu_
DumpReturn(t) ==
  /\ ~crashed
  /\ tpc[t] = "dump_loop"
  /\ it[t] > Len(lines_)
  /\ ret' = [ret EXCEPT ![t] = <<"ret", oss[t]>>]
  /\ mu_' = 0
  /\ tpc' = [tpc EXCEPT ![t] = "idle"]
  /\ UNCHANGED <<cap_, lines_, crashed, pushed, targ, oss, it, seen, npush, ndump>>
  /\ UNCHANGED <<tickVars, authVars, peerVars, joinVars>>

NoRet == <<"none", <<>>>>

-----------------------------------------------------------------------------
(* registerRoutes, the sampling thread, shutdown_live_logs *)

Callers == 1 .. NumCallers

\* static LogBuffer g_logs{800}
GLogsCap == 800

\* values of P2PHttpOptions::stats_every_ms the callers pass
Intervals == {-1, 0, 250}

\* the options of a call, as far as the sampling thread depends on them
TickOptions ==
  [enable_live_logs : BOOLEAN, enable_logs : BOOLEAN, stats_every_ms : Intervals]

\* vix::p2p::RuntimeStats last{}
ZeroStats ==
  [peers_total |-> 0, peers_connected |-> 0,
   handshakes_started |-> 0, handshakes_completed |-> 0,
   connect |-> [connect_attempts |-> 0, connect_deduped |-> 0,
                connect_failures |-> 0, backoff_skips |-> 0,
                tracked_endpoints |-> 0]]

StatFields == 1 .. 9

\* st with its f-th counter set to v
SetField(st, f, v) ==
  CASE f = 1 -> [st EXCEPT !.peers_total = v]
    [] f = 2 -> [st EXCEPT !.peers_connected = v]
    [] f = 3 -> [st EXCEPT !.handshakes_started = v]
    [] f = 4 -> [st EXCEPT !.handshakes_completed = v]
    [] f = 5 -> [st EXCEPT !.connect.connect_attempts = v]
    [] f = 6 -> [st EXCEPT !.connect.connect_deduped = v]
    [] f = 7 -> [st EXCEPT !.connect.connect_failures = v]
    [] f = 8 -> [st EXCEPT !.connect.backoff_skips = v]
    [] f = 9 -> [st EXCEPT !.connect.tracked_endpoints = v]

\* snapshots with all counters zero, or one counter raised
Samples ==
  {ZeroStats} \cup {SetField(ZeroStats, f, v) : f \in StatFields, v \in 1 .. MaxCounter}

\* a runtime of which only peers_total moves, between 0 and 1
TwoSamples == {ZeroStats, SetField(ZeroStats, 1, 1)}

\* rt->runtime_stats(): a snapshot, or an exception
RuntimeStatsOutcomes ==
  {[ok |-> TRUE, st |-> s] : s \in reports} \cup {[ok |-> FALSE, st |-> ZeroStats]}

\* stats_line_plain
stats_line_plain(st) ==
  "peers_total=" \o ToString(st.peers_total)
  \o " peers_connected=" \o ToString(st.peers_connected)
  \o " handshakes_started=" \o ToString(st.handshakes_started)
  \o " handshakes_completed=" \o ToString(st.handshakes_completed)
  \o " connect_attempts=" \o ToString(st.connect.connect_attempts)
  \o " connect_deduped=" \o ToString(st.connect.connect_deduped)
  \o " connect_failures=" \o ToString(st.connect.connect_failures)
  \o " backoff_skips=" \o ToString(st.connect.backoff_skips)
  \o " tracked_endpoints=" \o ToString(st.connect.tracked_endpoints)

\* the sampling loop's `changed`
MutantChangedIgnoresConnect(st, l) ==
  \/ st.peers_total # l.peers_total
  \/ st.peers_connected # l.peers_connected
  \/ st.handshakes_started # l.handshakes_started
  \/ st.handshakes_completed # l.handshakes_completed
MutantChangedSkipsLast(st, l) ==
  \/ st.peers_total # l.peers_total
  \/ st.peers_connected # l.peers_connected
  \/ st.handshakes_started # l.handshakes_started
  \/ st.handshakes_completed # l.handshakes_completed
  \/ st.connect.connect_attempts # l.connect.connect_attempts
  \/ st.connect.connect_deduped # l.connect.connect_deduped
  \/ st.connect.connect_failures # l.connect.connect_failures
  \/ st.connect.backoff_skips # l.connect.backoff_skips
changed(st, l) ==
  \/ st.peers_total # l.peers_total
  \/ st.peers_connected # l.peers_connected
  \/ st.handshakes_started # l.handshakes_started
  \/ st.handshakes_completed # l.handshakes_completed
  \/ st.connect.connect_attempts # l.connect.connect_attempts
  \/ st.connect.connect_deduped # l.connect.connect_deduped
  \/ st.connect.connect_failures # l.connect.connect_failures
  \/ st.connect.backoff_skips # l.connect.backoff_skips
  \/ st.connect.tracked_endpoints # l.connect.tracked_endpoints

\* opt.enable_live_logs && opt.enable_logs
MutantQualifiesWithEither(o) == o.enable_live_logs \/ o.enable_logs
Qualifies(o) == o.enable_live_logs /\ o.enable_logs

\* g_tick_started.compare_exchange_strong(expected, true) with expected = false
MutantCasAlwaysWins(flag) == TRUE
CasSucceeds(flag) == flag = FALSE

\* (opt.stats_every_ms <= 0 ? 1000 : opt.stats_every_ms)
MutantEveryOfUnchecked(o) == o.stats_every_ms
EveryOf(o) == IF o.stats_every_ms <= 0 THEN 1000 ELSE o.stats_every_ms

\* while (!g_tick_stop.load())
MutantLoopIgnoresStop(stop) == TRUE
LoopContinues(stop) == ~stop

\* P2PHttpOptions as default-constructed
DefaultTickOptions ==
  [enable_live_logs |-> TRUE, enable_logs |-> TRUE, stats_every_ms |-> 1000]

NoRound ==
  [valid |-> FALSE, st |-> ZeroStats, prev |-> ZeroStats,
   before |-> <<>>, after |-> <<>>, last |-> ZeroStats]

\* g_logs.push(line), mu_ taken and released within the step
LogPush(line) ==
  \E out \in PushOutcomes(lines_, cap_, line) :
    /\ lines_' = out.lines
    /\ crashed' = out.abort
    /\ pushed' = Append(pushed, line)
    /\ UNCHANGED <<cap_, mu_>>

\* registerRoutes returns: its parameters are gone
Return(c) ==
  /\ rpc' = [rpc EXCEPT ![c] = "done"]
  /\ ropt' = [ropt EXCEPT ![c] = DefaultTickOptions]
  /\ rrt' = [rrt EXCEPT ![c] = 0]
  /\ qualDone' = qualDone + (IF Qualifies(ropt[c]) THEN 1 ELSE 0)

\* registerRoutes is called: g_logs.push("[p2p_http] routes registered")
RegCall(c) ==
  /\ ~crashed
  /\ rpc[c] = "idle"
  /\ LogPush("[p2p_http] routes registered")
  /\ rpc' = [rpc EXCEPT ![c] = "gate"]
  /\ UNCHANGED <<g_tick_started, g_tick_stop, ropt, rrt, kpc, every, rt, last, loops,
                 ticks, slept, lastRound, stopSeen, afterStop, roundsAfterStop>>
  /\ UNCHANGED <<qualDone, reports>>
  /\ UNCHANGED <<thrVars, authVars, peerVars, joinVars>>

\* if (opt.enable_live_logs && opt.enable_logs) and the compare_exchange_strong.
\* opt and runtime are the call's parameters; nothing reads them before this point,
\* so they are drawn here.
RegGate(c) ==
  /\ ~crashed
  /\ rpc[c] = "gate"
  /\ \E o \in TickOptions :
       IF Qualifies(o) /\ CasSucceeds(g_tick_started)
         THEN /\ g_tick_started' = TRUE
              /\ rpc' = [rpc EXCEPT ![c] = "store"]
              /\ ropt' = [ropt EXCEPT ![c] = o]
              /\ rrt' = [rrt EXCEPT ![c] = c]
              /\ UNCHANGED qualDone
         ELSE /\ rpc' = [rpc EXCEPT ![c] = "done"]
              /\ qualDone' = qualDone + (IF Qualifies(o) THEN 1 ELSE 0)
              /\ UNCHANGED <<g_tick_started, ropt, rrt>>
  /\ UNCHANGED <<g_tick_stop, kpc, every, rt, last, loops, ticks,
                 slept, lastRound, stopSeen, afterStop, roundsAfterStop, reports>>
  /\ UNCHANGED <<logVars, thrVars, authVars, peerVars, joinVars>>

\* g_tick_stop.store(false)
RegStore(c) ==
  /\ ~crashed
  /\ rpc[c] = "store"
  /\ g_tick_stop' = FALSE
  /\ rpc' = [rpc EXCEPT ![c] = "spawn"]
  /\ UNCHANGED <<g_tick_started, ropt, rrt, kpc, every, rt, last, loops, ticks,
                 slept, lastRound, stopSeen, afterStop, roundsAfterStop>>
  /\ UNCHANGED <<qualDone, reports>>
  /\ UNCHANGED <<logVars, thrVars, authVars, peerVars, joinVars>>

\* every, rt and std::thread(...).detach(); the routes installed afterwards touch
\* none of these variables
RegSpawn(c) ==
  /\ ~crashed
  /\ rpc[c] = "spawn"
  /\ every' = EveryOf(ropt[c])
  /\ rt' = rrt[c]
  /\ last' = ZeroStats
  /\ kpc' = "check"
  /\ loops' = loops + 1
  /\ Return(c)
  /\ UNCHANGED <<g_tick_started, g_tick_stop, ticks, slept, lastRound,
                 stopSeen, afterStop, roundsAfterStop, reports>>
  /\ UNCHANGED <<logVars, thrVars, authVars, peerVars, joinVars>>

\* the sampling thread evaluates while (!g_tick_stop.load())
TickCheck ==
  /\ ~crashed
  /\ kpc = "check"
  /\ IF LoopContinues(g_tick_stop)
       THEN /\ ticks < MaxTicks
            /\ kpc' = "body"
       ELSE kpc' = "done"
  /\ UNCHANGED <<g_tick_started, g_tick_stop, rpc, ropt, rrt, every, rt, last, loops,
                 ticks, slept, lastRound, stopSeen, afterStop, roundsAfterStop>>
  /\ UNCHANGED <<qualDone, reports>>
  /\ UNCHANGED <<logVars, thrVars, authVars, peerVars, joinVars>>

\* the loop body up to the sleep: sample, compare, push, last = st. An exception
\* of runtime_stats leaves the thread function: std::terminate
TickBody ==
  /\ ~crashed
  /\ kpc = "body"
  /\ \E o \in RuntimeStatsOutcomes :
       IF o.ok
         THEN /\ IF changed(o.st, last)
                   THEN /\ LogPush("[p2p] " \o stats_line_plain(o.st))
                        /\ last' = o.st
                        /\ afterStop' = IF stopSeen THEN afterStop + 1 ELSE afterStop
                   ELSE /\ UNCHANGED <<logVars, last, afterStop>>
              /\ lastRound' = [valid |-> TRUE, st |-> o.st, prev |-> last,
                               before |-> lines_, after |-> lines_', last |-> last']
              /\ roundsAfterStop' =
                   IF stopSeen THEN roundsAfterStop + 1 ELSE roundsAfterStop
              /\ ticks' = ticks + 1
              /\ kpc' = "sleep"
         ELSE /\ crashed' = TRUE
              /\ kpc' = "terminated"
              /\ UNCHANGED <<cap_, lines_, mu_, pushed, last, afterStop, lastRound,
                             roundsAfterStop, ticks>>
  /\ UNCHANGED <<g_tick_started, g_tick_stop, rpc, ropt, rrt, every, rt, loops,
                 slept, stopSeen>>
  /\ UNCHANGED <<qualDone, reports>>
  /\ UNCHANGED <<thrVars, authVars, peerVars, joinVars>>

\* std::this_thread::sleep_for(std::chrono::milliseconds(every))
TickSleep ==
  /\ ~crashed
  /\ kpc = "sleep"
  /\ slept' = every
  /\ kpc' = "check"
  /\ UNCHANGED <<g_tick_started, g_tick_stop, rpc, ropt, rrt, every, rt, last, loops,
                 ticks, lastRound, stopSeen, afterStop, roundsAfterStop>>
  /\ UNCHANGED <<qualDone, reports>>
  /\ UNCHANGED <<logVars, thrVars, authVars, peerVars, joinVars>>

\* shutdown_live_logs(): sets the cooperative stop flag
Shutdown ==
  /\ ~crashed
  /\ g_tick_stop' = TRUE
  /\ stopSeen' = TRUE
  /\ afterStop' = IF g_tick_stop THEN afterStop ELSE 0
  /\ roundsAfterStop' = IF g_tick_stop THEN roundsAfterStop ELSE 0
  /\ UNCHANGED <<g_tick_started, rpc, ropt, rrt, kpc, every, rt, last, loops, ticks,
                 slept, lastRound>>
  /\ UNCHANGED <<qualDone, reports>>
  /\ UNCHANGED <<logVars, thrVars, authVars, peerVars, joinVars>>

-----------------------------------------------------------------------------
(* Requests: the route middlewares and the handlers *)

\* AuthHookCtx / AuthHookLegacy = nullptr
NULL == "nullptr"
Hooks == {NULL, "hook"}

\* the routes of registerRoutes the model serves
Routes == {"ping", "admin_hook"}

\* the RouteOptions registerRoutes gives each route
RouteOptionsOf(route) ==
  IF route = "admin_hook"
    THEN [heavy |-> TRUE, require_auth |-> TRUE]
    ELSE [heavy |-> FALSE, require_auth |-> FALSE]

NoBody == [empty |-> TRUE]
UnauthorizedBody == [ok |-> FALSE, error |-> "unauthorized", hint |-> "auth required"]
NotImplementedBody ==
  [ok |-> FALSE, status |-> 501, error |-> "not_implemented",
   message |-> "p2p_http: admin endpoint planned"]
PingBody == [ok |-> TRUE, pong |-> TRUE, module |-> "p2p_http"]
HeavyHeader == <<"x-vix-route-heavy", "1">>

\* a response nothing was written to
FreshResponse == [status |-> 200, body |-> NoBody, headers |-> {}]

\* res.status(code).json(body)
MutantJsonWithoutStatus(r, code, body) == [r EXCEPT !.body = body]
StatusJson(r, code, body) == [r EXCEPT !.status = code, !.body = body]
\* res.json(body)
Json(r, body) == [r EXCEPT !.body = body]
\* res.header(name, value)
Header(r, h) == [r EXCEPT !.headers = @ \cup {h}]

\* What a configured strategy does with a request: its verdict, and whether it
\* writes a rejection of its own to the response.
StrategyOutcomes == [ok : BOOLEAN, writes : BOOLEAN]
StrategyWrite(r, o) ==
  IF o.writes THEN StatusJson(r, 403, [ok |-> FALSE, error |-> "forbidden"]) ELSE r

\* !opt.auth_ctx, !opt.auth_legacy
MutantHookAlwaysSet(h) == TRUE
HookSet(h) == h # NULL

\* if (!ok) return;  and  if (!legacy_auth_or_401(...)) return;
MutantProceedsAnyway(ok) == TRUE
Proceeds(ok) == ok

\* #if !defined(VIX_P2P_HTTP_WITH_MIDDLEWARE) in the admin/hook handler
MutantInlineGateInBothBuilds(mw) == TRUE
InlineGate(mw) == ~mw

\* chain(a, b): a runs first and b is what its next() continues with
MutantChainReversed(a, b) == <<b, a>>
chain(a, b) == <<a, b>>

\* install_route_middlewares: the chain installed on the path
install_route_middlewares(ro) ==
  IF ~ro.heavy /\ ~ro.require_auth THEN <<>>
  ELSE IF ro.require_auth /\ ro.heavy THEN chain("auth_ctx", "heavy_ctx")
  ELSE IF ro.require_auth THEN <<"auth_ctx">>
  ELSE <<"heavy_ctx">>

\* the chain a request to the route passes before the handler
InstalledChain(route) ==
  IF middleware THEN install_route_middlewares(RouteOptionsOf(route)) ELSE <<>>

NoRequest ==
  [route |-> "none", pc |-> "none", chain |-> <<>>, events |-> <<>>,
   verdict |-> "none", afterAuth |-> FreshResponse]

\* legacy_auth_or_401 falling back on the Context strategy
MutantLegacyFallsBackOnCtx(o, r, out) ==
  IF ~HookSet(o.auth_legacy) /\ ~HookSet(o.auth_ctx)
    THEN [ok |-> FALSE, res |-> StatusJson(r, 401, UnauthorizedBody),
          events |-> <<"unauthorized">>, verdict |-> "none"]
    ELSE [ok |-> out.ok, res |-> StrategyWrite(r, out),
          events |-> <<IF HookSet(o.auth_legacy) THEN "auth_legacy" ELSE "auth_ctx">>,
          verdict |-> IF out.ok THEN "true" ELSE "false"]

\* legacy_auth_or_401
legacy_auth_or_401(o, r, out) ==
  IF ~HookSet(o.auth_legacy)
    THEN [ok |-> FALSE, res |-> StatusJson(r, 401, UnauthorizedBody),
          events |-> <<"unauthorized">>, verdict |-> "none"]
    ELSE [ok |-> out.ok, res |-> StrategyWrite(r, out),
          events |-> <<"auth_legacy">>,
          verdict |-> IF out.ok THEN "true" ELSE "false"]

\* the handler of POST {prefix}/admin/hook setting the heavy marker before the gate
MutantAdminHookTagsFirst(o, r, out) ==
  LET ro == RouteOptionsOf("admin_hook")
      tag == InlineGate(middleware) /\ ro.heavy
      tagged == IF tag THEN Header(r, HeavyHeader) ELSE r
      gate == IF InlineGate(middleware) /\ ro.require_auth
                THEN legacy_auth_or_401(o, tagged, out)
                ELSE [ok |-> TRUE, res |-> tagged, events |-> <<>>, verdict |-> "none"]
  IN IF ~Proceeds(gate.ok)
       THEN [res |-> gate.res, events |-> gate.events, verdict |-> gate.verdict,
             afterAuth |-> gate.res]
       ELSE [res |-> StatusJson(gate.res, 501, NotImplementedBody),
             events |-> gate.events \o (IF tag THEN <<"heavy">> ELSE <<>>) \o <<"body">>,
             verdict |-> gate.verdict,
             afterAuth |-> gate.res]

\* the handler of POST {prefix}/admin/hook
AdminHookHandler(o, r, out) ==
  LET ro == RouteOptionsOf("admin_hook")
      gate == IF InlineGate(middleware) /\ ro.require_auth
                THEN legacy_auth_or_401(o, r, out)
                ELSE [ok |-> TRUE, res |-> r, events |-> <<>>, verdict |-> "none"]
      tag == InlineGate(middleware) /\ ro.heavy
  IN IF ~Proceeds(gate.ok)
       THEN [res |-> gate.res, events |-> gate.events, verdict |-> gate.verdict,
             afterAuth |-> gate.res]
       ELSE [res |-> StatusJson(IF tag THEN Header(gate.res, HeavyHeader) ELSE gate.res,
                                501, NotImplementedBody),
             events |-> gate.events \o (IF tag THEN <<"heavy">> ELSE <<>>) \o <<"body">>,
             verdict |-> gate.verdict,
             afterAuth |-> gate.res]

\* the handler of GET {prefix}/ping
PingHandler(r) == [res |-> Json(r, PingBody), events |-> <<"body">>]

\* a request to a route arrives
Arrive(route) ==
  /\ req.pc \in {"none", "done"}
  /\ served < MaxRequests
  /\ req' = [NoRequest EXCEPT !.route = route, !.pc = "chain",
                              !.chain = InstalledChain(route)]
  /\ res' = FreshResponse
  /\ UNCHANGED <<middleware, opt, served>>
  /\ UNCHANGED <<logVars, thrVars, tickVars, peerVars, joinVars>>

\* the auth_ctx middleware of install_route_middlewares
auth_ctx ==
  /\ req.pc = "chain"
  /\ req.chain # <<>>
  /\ Head(req.chain) = "auth_ctx"
  /\ IF ~HookSet(opt.auth_ctx)
       THEN /\ res' = StatusJson(res, 401, UnauthorizedBody)
            /\ req' = [req EXCEPT !.pc = "done", !.events = Append(@, "unauthorized")]
            /\ served' = served + 1
       ELSE \E out \in StrategyOutcomes :
              /\ res' = StrategyWrite(res, out)
              /\ IF Proceeds(out.ok)
                   THEN /\ req' = [req EXCEPT !.chain = Tail(@),
                                              !.events = Append(@, "auth_ctx"),
                                              !.verdict = IF out.ok THEN "true" ELSE "false",
                                              !.afterAuth = res']
                        /\ UNCHANGED served
                   ELSE /\ req' = [req EXCEPT !.pc = "done",
                                              !.events = Append(@, "auth_ctx"),
                                              !.verdict = "false",
                                              !.afterAuth = res']
                        /\ served' = served + 1
  /\ UNCHANGED <<middleware, opt>>
  /\ UNCHANGED <<logVars, thrVars, tickVars, peerVars, joinVars>>

\* heavy_ctx without its next(): the marker is set and the request ends there
MutantHeavyWithoutNext ==
  /\ req.pc = "chain"
  /\ req.chain # <<>>
  /\ Head(req.chain) = "heavy_ctx"
  /\ res' = Header(res, HeavyHeader)
  /\ req' = [req EXCEPT !.pc = "done", !.events = Append(@, "heavy")]
  /\ served' = served + 1
  /\ UNCHANGED <<middleware, opt>>
  /\ UNCHANGED <<logVars, thrVars, tickVars, peerVars, joinVars>>

\* the heavy_ctx middleware of install_route_middlewares
heavy_ctx ==
  /\ req.pc = "chain"
  /\ req.chain # <<>>
  /\ Head(req.chain) = "heavy_ctx"
  /\ res' = Header(res, HeavyHeader)
  /\ req' = [req EXCEPT !.chain = Tail(@), !.events = Append(@, "heavy")]
  /\ UNCHANGED <<middleware, opt, served>>
  /\ UNCHANGED <<logVars, thrVars, tickVars, peerVars, joinVars>>

\* the chain is passed: the route's handler runs
Handle ==
  /\ req.pc = "chain"
  /\ req.chain = <<>>
  /\ \/ /\ req.route = "ping"
        /\ LET h == PingHandler(res)
           IN /\ res' = h.res
              /\ req' = [req EXCEPT !.pc = "done", !.events = @ \o h.events]
     \/ /\ req.route = "admin_hook"
        /\ \E out \in StrategyOutcomes :
             LET h == AdminHookHandler(opt, res, out)
             IN /\ res' = h.res
                /\ req' = [req EXCEPT !.pc = "done", !.events = @ \o h.events,
                             !.verdict = IF h.verdict = "none" THEN @ ELSE h.verdict,
                             !.afterAuth = IF h.verdict = "none" THEN @ ELSE h.afterAuth]
  /\ served' = served + 1
  /\ UNCHANGED <<middleware, opt>>
  /\ UNCHANGED <<logVars, thrVars, tickVars, peerVars, joinVars>>

\* install_route_middlewares applied to each combination of RouteOptions: one
\* route per combination, named after the flags it sets
ProbeRoutes == {"plain", "heavy_only", "auth_only", "auth_heavy"}
ProbeOptionsOf(route) ==
  [heavy |-> route \in {"heavy_only", "auth_heavy"},
   require_auth |-> route \in {"auth_only", "auth_heavy"}]

\* a request arrives on a path install_route_middlewares was called for
ArriveProbe(route) ==
  /\ middleware
  /\ req.pc \in {"none", "done"}
  /\ served < MaxRequests
  /\ req' = [NoRequest EXCEPT !.route = route, !.pc = "chain",
                              !.chain = install_route_middlewares(ProbeOptionsOf(route))]
  /\ res' = FreshResponse
  /\ UNCHANGED <<middleware, opt, served>>
  /\ UNCHANGED <<logVars, thrVars, tickVars, peerVars, joinVars>>

\* the chain is passed: the handler registered on the path runs
HandleProbe ==
  /\ req.pc = "chain"
  /\ req.chain = <<>>
  /\ req.route \in ProbeRoutes
  /\ LET h == PingHandler(res)
     IN /\ res' = h.res
        /\ req' = [req EXCEPT !.pc = "done", !.events = @ \o h.events]
  /\ served' = served + 1
  /\ UNCHANGED <<middleware, opt>>
  /\ UNCHANGED <<logVars, thrVars, tickVars, peerVars, joinVars>>

-----------------------------------------------------------------------------
(* GET {prefix}/peers: the handler and what it renders *)

\* the largest number of peers in the directory
MaxPeers == 2
\* the last tick of the steady clock
MaxClock == 3
\* the times the runtime replaces the keys of a peer
MaxRekeys == 1
\* steady_clock ticks in one millisecond
TicksPerMs == 2

\* the peer identifiers: "a", "ab", "b"
PeerIds == {<<97>>, <<97, 98>>, <<98>>}

\* PeerId's operator<
RECURSIVE IdLess(_, _)
IdLess(a, b) ==
  IF b = <<>> THEN FALSE
  ELSE IF a = <<>> THEN TRUE
  ELSE IF Head(a) < Head(b) THEN TRUE
  ELSE IF Head(a) > Head(b) THEN FALSE
  ELSE IdLess(Tail(a), Tail(b))

\* std::optional
None == [has_value |-> FALSE]
Some(v) == [has_value |-> TRUE, value |-> v]

\* the byte strings a key can hold
KeyBytes == {<<>>, <<1>>, <<2>>, <<1, 2>>, <<2, 1>>}

\* Peer records the directory can hold: all optional parts absent; all present;
\* a handshake whose started_at was never set, an endpoint with a scheme of its
\* own and a state outside the enumeration; keys of other lengths
BarePeer ==
  [state |-> "Disconnected", endpoint |-> None, handshake |-> None,
   meta |-> [last_seen |-> 0, secure |-> FALSE, public_key |-> <<>>,
             session_key_32 |-> <<>>, capabilities |-> 0]]
FullPeer ==
  [state |-> "Connected",
   endpoint |-> Some([scheme |-> "", host |-> "127.0.0.1", port |-> 9001]),
   handshake |-> Some([stage |-> "HelloSent", started_at |-> 1, nonce_a |-> 7,
                       nonce_b |-> 9, ts_ms |-> 5]),
   meta |-> [last_seen |-> 1, secure |-> TRUE, public_key |-> <<1, 2>>,
             session_key_32 |-> <<1>>, capabilities |-> 2]]
OddPeer ==
  [state |-> "Invalid",
   endpoint |-> Some([scheme |-> "udp", host |-> "h", port |-> 0]),
   handshake |-> Some([stage |-> "Finished", started_at |-> 0, nonce_a |-> 0,
                       nonce_b |-> 0, ts_ms |-> 0]),
   meta |-> [last_seen |-> 0, secure |-> FALSE, public_key |-> <<2>>,
             session_key_32 |-> <<2, 1>>, capabilities |-> 0]]
PeerSamples == {BarePeer, FullPeer, OddPeer}

\* the directories: at most MaxPeers identifiers, each with a record
Directories ==
  UNION {[ids -> PeerSamples] : ids \in {x \in SUBSET PeerIds : Cardinality(x) <= MaxPeers}}

\* the orders in which iterating over the snapshot can visit its entries
IterationOrders(snap) ==
  LET n == Cardinality(DOMAIN snap)
  IN {o \in [1 .. n -> DOMAIN snap] : \A i, j \in 1 .. n : o[i] = o[j] => i = j}

\* state_to_string
state_to_string(st) ==
  CASE st = "Disconnected" -> "disconnected"
    [] st = "Connecting" -> "connecting"
    [] st = "Handshaking" -> "handshaking"
    [] st = "Connected" -> "connected"
    [] st = "Stale" -> "stale"
    [] st = "Closed" -> "closed"
    [] OTHER -> "unknown"

\* hs_stage_to_string
hs_stage_to_string(st) ==
  CASE st = "None" -> "none"
    [] st = "HelloSent" -> "hello_sent"
    [] st = "HelloReceived" -> "hello_received"
    [] st = "AckSent" -> "ack_sent"
    [] st = "AckReceived" -> "ack_received"
    [] st = "Finished" -> "finished"
    [] OTHER -> "unknown"

\* endpoint_to_string
endpoint_to_string(ep) ==
  IF ~ep.has_value THEN ""
  ELSE (IF ep.value.scheme = "" THEN "tcp" ELSE ep.value.scheme)
         \o "://" \o ep.value.host \o ":" \o ToString(ep.value.port)

\* duration_cast<milliseconds>(diff).count(): the quotient truncated towards zero
DurationMs(diff) ==
  IF diff >= 0 THEN diff \div TicksPerMs ELSE -((-diff) \div TicksPerMs)

\* t.time_since_epoch().count() != 0
IsSet(t) == t # 0

\* the milliseconds from t to now, -1 when t was never set
MutantMsAgoUnchecked(t, now) == DurationMs(now - t)
MsAgo(t, now) == IF IsSet(t) THEN DurationMs(now - t) ELSE -1

\* (long long)key.size()
MutantKeyItself(key) == key
KeySize(key) == Len(key)

\* the handshake block: the values rendered for an optional handshake
MutantHandshakeZeroAge(hs, now) ==
  IF hs.has_value
    THEN [stage |-> hs_stage_to_string(hs.value.stage),
          age_ms |-> MsAgo(hs.value.started_at, now),
          nonce_a |-> hs.value.nonce_a,
          nonce_b |-> hs.value.nonce_b,
          ts_ms |-> hs.value.ts_ms]
    ELSE [stage |-> "none", age_ms |-> 0, nonce_a |-> 0, nonce_b |-> 0, ts_ms |-> 0]
HandshakeBlock(hs, now) ==
  IF hs.has_value
    THEN [stage |-> hs_stage_to_string(hs.value.stage),
          age_ms |-> MsAgo(hs.value.started_at, now),
          nonce_a |-> hs.value.nonce_a,
          nonce_b |-> hs.value.nonce_b,
          ts_ms |-> hs.value.ts_ms]
    ELSE [stage |-> "none", age_ms |-> -1, nonce_a |-> 0, nonce_b |-> 0, ts_ms |-> 0]

\* the endpoint split: the values rendered for an optional endpoint
EndpointBlock(ep) ==
  IF ep.has_value
    THEN [scheme |-> IF ep.value.scheme = "" THEN "tcp" ELSE ep.value.scheme,
          host |-> ep.value.host,
          port |-> ep.value.port]
    ELSE [scheme |-> "", host |-> "", port |-> 0]

\* the object pushed to peers_arr for one peer
RenderPeer(peer_id, p, now) ==
  LET hs == HandshakeBlock(p.handshake, now)
      ep == EndpointBlock(p.endpoint)
  IN [peer_id |-> peer_id,
      state |-> state_to_string(p.state),
      endpoint |-> endpoint_to_string(p.endpoint),
      has_endpoint |-> p.endpoint.has_value,
      scheme |-> ep.scheme,
      host |-> ep.host,
      port |-> ep.port,
      secure |-> p.meta.secure,
      capabilities_count |-> p.meta.capabilities,
      public_key_len |-> KeySize(p.meta.public_key),
      session_key_len |-> KeySize(p.meta.session_key_32),
      last_seen_ms_ago |-> MsAgo(p.meta.last_seen, now),
      has_handshake |-> p.handshake.has_value,
      handshake_stage |-> hs.stage,
      handshake_age_ms |-> hs.age_ms,
      nonce_a |-> hs.nonce_a,
      nonce_b |-> hs.nonce_b,
      ts_ms |-> hs.ts_ms]

\* the comparator given to std::sort
MutantItemGreater(a, b) == IdLess(b[1], a[1])
ItemLess(a, b) == IdLess(a[1], b[1])

\* std::sort(items.begin(), items.end(), comparator)
RECURSIVE InsertItem(_, _)
InsertItem(x, s) ==
  IF s = <<>> THEN <<x>>
  ELSE IF ItemLess(x, Head(s)) THEN <<x>> \o s
  ELSE <<Head(s)>> \o InsertItem(x, Tail(s))
MutantSortSkipped(s) == s
RECURSIVE SortItems(_)
SortItems(s) ==
  IF s = <<>> THEN <<>> ELSE InsertItem(Head(s), SortItems(Tail(s)))

\* the payload of a successful GET {prefix}/peers: snap iterated in order o, at now
PeersBody(snap, o, now) ==
  LET items == SortItems([i \in DOMAIN o |-> <<o[i], snap[o[i]]>>])
      peers_arr == [i \in DOMAIN items |-> RenderPeer(items[i][1], items[i][2], now)]
  IN [ok |-> TRUE, module |-> "p2p_http", total |-> Len(peers_arr), peers |-> peers_arr]

NodeUnavailableBody == [ok |-> FALSE, error |-> "p2p_node_unavailable"]

\* if (!node)
MutantNodeAlwaysThere(n) == TRUE
NodeAvailable(n) == n

\* the handler of GET {prefix}/peers
PeersHandler ==
  /\ IF ~NodeAvailable(node)
       THEN /\ res' = StatusJson(FreshResponse, 503, NodeUnavailableBody)
            /\ shuffled' = FALSE
            /\ calls' = LastN(Append(calls, [node |-> node, snapshot |-> FALSE,
                                             dir |-> dir, now |-> clock, res |-> res']),
                              Min(Len(calls) + 1, 2))
       ELSE \E o \in IterationOrders(dir) :
              /\ res' = Json(FreshResponse, PeersBody(dir, o, clock))
              /\ shuffled' = (\E i, j \in DOMAIN o : i < j /\ IdLess(o[j], o[i]))
              /\ calls' = LastN(Append(calls, [node |-> node, snapshot |-> TRUE,
                                               dir |-> dir, now |-> clock, res |-> res']),
                                Min(Len(calls) + 1, 2))
  /\ UNCHANGED <<node, dir, clock, rekeys>>
  /\ UNCHANGED <<middleware, opt, req, served>>
  /\ UNCHANGED <<logVars, thrVars, tickVars, joinVars>>

\* the steady clock advances
ClockTick ==
  /\ clock < MaxClock
  /\ clock' = clock + 1
  /\ UNCHANGED <<node, dir, calls, shuffled, rekeys>>
  /\ UNCHANGED <<logVars, thrVars, tickVars, authVars, joinVars>>

\* the runtime replaces the keys of a peer: every key that has bytes gets other
\* bytes, as many as before
Rekey(id, pk, sk) ==
  /\ rekeys < MaxRekeys
  /\ id \in DOMAIN dir
  /\ Len(pk) = Len(dir[id].meta.public_key)
  /\ Len(sk) = Len(dir[id].meta.session_key_32)
  /\ pk # <<>> => pk # dir[id].meta.public_key
  /\ sk # <<>> => sk # dir[id].meta.session_key_32
  /\ <<pk, sk>> # <<dir[id].meta.public_key, dir[id].meta.session_key_32>>
  /\ dir' = [dir EXCEPT ![id].meta.public_key = pk, ![id].meta.session_key_32 = sk]
  /\ rekeys' = rekeys + 1
  /\ UNCHANGED <<node, clock, calls, shuffled>>
  /\ UNCHANGED <<logVars, thrVars, tickVars, authVars, joinVars>>

-----------------------------------------------------------------------------
(* join_prefix *)

\* longest base and path join_prefix is called on
MaxPath == 3

\* the characters of the paths: the separator and one other character
Chars == {"/", "a"}

\* every std::string of at most MaxPath characters
Texts == UNION {[1 .. n -> Chars] : n \in 0 .. MaxPath}

\* if (!s.empty() && s.front() != '/') s.insert(s.begin(), '/');
LeadSlash(s) == IF s # <<>> /\ Head(s) # "/" THEN <<"/">> \o s ELSE s

\* while (s.size() > 1 && s.back() == '/') s.pop_back();
RECURSIVE PopTrailing(_)
PopTrailing(s) ==
  IF Len(s) > 1 /\ s[Len(s)] = "/" THEN PopTrailing(SubSeq(s, 1, Len(s) - 1)) ELSE s

\* what join_prefix makes of its parameter base, and likewise of path, before
\* it joins them
Normalized(s) == PopTrailing(LeadSlash(s))

\* join_prefix
join_prefix(base, path) ==
  LET b == Normalized(base)
      p == Normalized(path)
  IN IF b = <<>> THEN (IF p = <<>> THEN <<"/">> ELSE p)
     ELSE IF p = <<>> \/ p = <<"/">> THEN b
     ELSE b \o p

\* const std::string base = (opt.prefix.empty() ? "/p2p" : opt.prefix);
DefaultPrefix == <<"/", "p", "2", "p">>
BaseOf(px) == IF px = <<>> THEN DefaultPrefix ELSE px

\* the routes registerRoutes joins a path for, and the path literal of each
JoinedRoutes == {"ping", "status", "peers", "logs", "admin_hook"}
RoutePath(route) ==
  CASE route = "ping" -> <<"/", "p", "i", "n", "g">>
    [] route = "status" -> <<"/", "s", "t", "a", "t", "u", "s">>
    [] route = "peers" -> <<"/", "p", "e", "e", "r", "s">>
    [] route = "logs" -> <<"/", "l", "o", "g", "s">>
    [] route = "admin_hook" -> <<"/", "a", "d", "m", "i", "n", "/", "h", "o", "o", "k">>

\* join_prefix(base, path) is called, on any base and path; the function keeps
\* no state, so one call from the initial state covers every call
JoinCall(base, path) ==
  /\ jpc = "idle"
  /\ jbase' = base
  /\ jpath' = path
  /\ jret' = join_prefix(base, path)
  /\ jpc' = "joined"
  /\ UNCHANGED prefix
  /\ UNCHANGED <<logVars, thrVars, tickVars, authVars, peerVars>>

\* registerRoutes computes the path of one of its routes
JoinRoute(route) ==
  /\ jbase' = BaseOf(prefix)
  /\ jpath' = RoutePath(route)
  /\ jret' = join_prefix(BaseOf(prefix), RoutePath(route))
  /\ jpc' = "joined"
  /\ UNCHANGED prefix
  /\ UNCHANGED <<logVars, thrVars, tickVars, authVars, peerVars>>

-----------------------------------------------------------------------------
(* Initial states *)

\* a LogBuffer constructed with capacity cap
InitLogBuffer(cap) ==
  /\ cap_ = cap
  /\ lines_ = <<>>
  /\ mu_ = 0
  /\ crashed = FALSE
  /\ pushed = <<>>

\* no thread is inside push or dump
InitThreads ==
  /\ tpc = [t \in Threads |-> "idle"]
  /\ targ = [t \in Threads |-> <<>>]
  /\ oss = [t \in Threads |-> <<>>]
  /\ it = [t \in Threads |-> 1]
  /\ ret = [t \in Threads |-> NoRet]
  /\ seen = [t \in Threads |-> {}]
  /\ npush = [t \in Threads |-> 0]
  /\ ndump = [t \in Threads |-> 0]

\* g_tick_started{false}, g_tick_stop{false}, nobody has called registerRoutes;
\* the runtime reports the snapshots of rs
InitTick(rs) ==
  /\ reports = rs
  /\ g_tick_started = FALSE
  /\ g_tick_stop = FALSE
  /\ rpc = [c \in Callers |-> "idle"]
  /\ ropt = [c \in Callers |-> DefaultTickOptions]
  /\ rrt = [c \in Callers |-> 0]
  /\ kpc = "unstarted"
  /\ every = 0
  /\ rt = 0
  /\ last = ZeroStats
  /\ loops = 0
  /\ ticks = 0
  /\ slept = 0
  /\ lastRound = NoRound
  /\ stopSeen = FALSE
  /\ afterStop = 0
  /\ roundsAfterStop = 0
  /\ qualDone = 0

\* no request is being served
InitAuth(mw, o) ==
  /\ middleware = mw
  /\ opt = o
  /\ req = NoRequest
  /\ res = FreshResponse
  /\ served = 0

\* no request to GET {prefix}/peers was served; the directory holds d
InitPeers(n, d) ==
  /\ node = n
  /\ dir = d
  /\ clock = 1
  /\ calls = <<>>
  /\ shuffled = FALSE
  /\ rekeys = 0

\* join_prefix was not called; P2PHttpOptions::prefix is px
InitJoin(px) ==
  /\ prefix = px
  /\ jbase = <<>>
  /\ jpath = <<>>
  /\ jret = <<>>
  /\ jpc = "idle"

\* a LogBuffer of any capacity, and the threads using it
InitLog ==
  /\ \E cap \in 0 .. MaxCap : InitLogBuffer(cap)
  /\ InitThreads
  /\ InitTick(TwoSamples)
  /\ InitAuth(FALSE, [auth_ctx |-> NULL, auth_legacy |-> NULL])
  /\ InitPeers(FALSE, <<>>)
  /\ InitJoin(<<>>)

\* the process before the first registerRoutes
Init ==
  /\ InitLogBuffer(GLogsCap)
  /\ InitThreads
  /\ InitTick(TwoSamples)
  /\ InitAuth(FALSE, [auth_ctx |-> NULL, auth_legacy |-> NULL])
  /\ InitPeers(FALSE, <<>>)
  /\ InitJoin(<<>>)

\* one registerRoutes call with both enable flags set has returned and the sampling
\* thread it started has not yet run; the runtime reports any snapshot of Samples
InitLoop ==
  /\ cap_ = GLogsCap
  /\ lines_ = <<"[p2p_http] routes registered">>
  /\ pushed = <<"[p2p_http] routes registered">>
  /\ mu_ = 0
  /\ crashed = FALSE
  /\ InitThreads
  /\ reports = Samples
  /\ g_tick_started = TRUE
  /\ g_tick_stop = FALSE
  /\ rpc = [c \in Callers |-> IF c = 1 THEN "done" ELSE "idle"]
  /\ ropt = [c \in Callers |-> DefaultTickOptions]
  /\ rrt = [c \in Callers |-> 0]
  /\ kpc = "check"
  /\ every \in {EveryOf(o) : o \in TickOptions}
  /\ rt = 1
  /\ last = ZeroStats
  /\ loops = 1
  /\ ticks = 0
  /\ slept = 0
  /\ lastRound = NoRound
  /\ stopSeen = FALSE
  /\ afterStop = 0
  /\ roundsAfterStop = 0
  /\ qualDone = 1
  /\ InitAuth(FALSE, [auth_ctx |-> NULL, auth_legacy |-> NULL])
  /\ InitPeers(FALSE, <<>>)
  /\ InitJoin(<<>>)

\* the routes are registered, in either build, with any hooks
InitRoutes ==
  /\ InitLogBuffer(GLogsCap)
  /\ InitThreads
  /\ InitTick(TwoSamples)
  /\ \E mw \in BOOLEAN, o \in [auth_ctx : Hooks, auth_legacy : Hooks] : InitAuth(mw, o)
  /\ InitPeers(FALSE, <<>>)
  /\ InitJoin(<<>>)

\* the middleware build, with any hooks, before the first request
InitChain ==
  /\ InitLogBuffer(GLogsCap)
  /\ InitThreads
  /\ InitTick(TwoSamples)
  /\ \E o \in [auth_ctx : Hooks, auth_legacy : Hooks] : InitAuth(TRUE, o)
  /\ InitPeers(FALSE, <<>>)
  /\ InitJoin(<<>>)

\* the routes are registered; the runtime has no node or any directory
InitPeersRoute ==
  /\ InitLogBuffer(GLogsCap)
  /\ InitThreads
  /\ InitTick(TwoSamples)
  /\ InitAuth(FALSE, [auth_ctx |-> NULL, auth_legacy |-> NULL])
  /\ \E n \in BOOLEAN, d \in Directories : InitPeers(n, d)
  /\ InitJoin(<<>>)

\* registerRoutes is about to be called with any prefix
InitJoinPrefix ==
  /\ InitLogBuffer(GLogsCap)
  /\ InitThreads
  /\ InitTick(TwoSamples)
  /\ InitAuth(FALSE, [auth_ctx |-> NULL, auth_legacy |-> NULL])
  /\ InitPeers(FALSE, <<>>)
  /\ \E px \in Texts : InitJoin(px)

-----------------------------------------------------------------------------
(* Specifications *)

NextLog ==
  \/ \E t \in Threads : PushLock(t)
  \/ \E t \in Threads : PushBody(t)
  \/ \E t \in Threads : PushUnlock(t)
  \/ \E t \in Threads : DumpCall(t)
  \/ \E t \in Threads : DumpLock(t)
  \/ \E t \in Threads : DumpStep(t)
  \/ \E t \in Threads : DumpReturn(t)

SpecLog == InitLog /\ [][NextLog]_vars

Next ==
  \/ \E c \in Callers : RegCall(c)
  \/ \E c \in Callers : RegGate(c)
  \/ \E c \in Callers : RegStore(c)
  \/ \E c \in Callers : RegSpawn(c)
  \/ TickCheck
  \/ TickBody
  \/ TickSleep
  \/ Shutdown

Spec == Init /\ [][Next]_vars

NextLoop ==
  \/ TickCheck
  \/ TickBody
  \/ TickSleep
  \/ Shutdown

SpecLoop == InitLoop /\ [][NextLoop]_vars

NextAuth ==
  \/ \E route \in Routes : Arrive(route)
  \/ auth_ctx
  \/ heavy_ctx
  \/ Handle

SpecAuth == InitRoutes /\ [][NextAuth]_vars

NextChain ==
  \/ \E route \in ProbeRoutes : ArriveProbe(route)
  \/ auth_ctx
  \/ heavy_ctx
  \/ HandleProbe

SpecChain == InitChain /\ [][NextChain]_vars

NextPeers ==
  \/ PeersHandler
  \/ ClockTick
  \/ \E id \in PeerIds, pk \in KeyBytes, sk \in KeyBytes : Rekey(id, pk, sk)

SpecPeers == InitPeersRoute /\ [][NextPeers]_vars

NextJoin ==
  \/ \E b \in Texts, p \in Texts : JoinCall(b, p)
  \/ \E route \in JoinedRoutes : JoinRoute(route)

SpecJoin == InitJoinPrefix /\ [][NextJoin]_vars

-----------------------------------------------------------------------------
(* Claims *)

\* the position of line l in the sequence s of distinct lines (0 when absent)
PosIn(s, l) == IF \E i \in DOMAIN s : s[i] = l
                 THEN CHOOSE i \in DOMAIN s : s[i] = l ELSE 0

\* the events of a sequence, as a set
EventSet(es) == {es[i] : i \in DOMAIN es}

\* the strategy the build consults
ActiveHook == IF middleware THEN opt.auth_ctx ELSE opt.auth_legacy

\* C1: whatever the capacity cap_ and the pushes made, the buffer holds at most
\* cap_ lines and they are the most recent min(n, cap_) pushed lines, in push
\* order (so a push onto a full buffer evicts exactly the oldest line).
C1_BoundedMostRecent ==
  /\ Len(lines_) <= cap_
  /\ lines_ = LastN(pushed, Min(Len(pushed), cap_))

\* With a capacity of at least one the statement of C1 holds: the violation needs
\* the pop_front() on an empty deque that only cap_ = 0 reaches.
BoundedMostRecentForPositiveCap == cap_ >= 1 => C1_BoundedMostRecent

\* C2: at most one sampling loop is ever started, and once every registerRoutes
\* call has returned, one of them with both enable flags set, exactly one was.
C2_ExactlyOneLoop ==
  /\ loops <= 1
  /\ (qualDone >= 1 /\ \A c \in Callers : rpc[c] \in {"idle", "done"}) => loops = 1

C2_Witness ==
  /\ qualDone >= 2
  /\ \A c \in Callers : rpc[c] = "done"
  /\ loops = 1

\* C3: a request to the gated route with no strategy configured for the build ends
\* with status 401 and the unauthorized payload, and the handler's 501 body never
\* runs for it.
C3_FailClosed ==
  (req.pc = "done" /\ req.route = "admin_hook" /\ ActiveHook = NULL)
    => /\ res.status = 401
       /\ res.body = UnauthorizedBody
       /\ "body" \notin EventSet(req.events)

C3_Witness ==
  /\ req.pc = "done"
  /\ req.route = "admin_hook"
  /\ ActiveHook = NULL
  /\ res.status = 401

\* C4: when the configured strategy returns false, the handler body does not run
\* and the response stays as the strategy left it.
C4_RejectedStops ==
  (req.pc = "done" /\ req.route = "admin_hook" /\ req.verdict = "false")
    => /\ "body" \notin EventSet(req.events)
       /\ "heavy" \notin EventSet(req.events)
       /\ res = req.afterAuth

C4_Witness ==
  /\ req.pc = "done"
  /\ req.route = "admin_hook"
  /\ req.verdict = "false"
  /\ res.status = 403

\* C5: an iteration whose sample equals the last emitted snapshot pushes nothing
\* and keeps it; an iteration whose sample differs from it in at least one counter
\* pushes exactly one line, the sample's, and makes the sample the last emitted.
C5_EmitOnChangeOnly ==
  lastRound.valid =>
    IF lastRound.st = lastRound.prev
      THEN /\ lastRound.after = lastRound.before
           /\ lastRound.last = lastRound.prev
      ELSE /\ lastRound.after =
                Append(lastRound.before, "[p2p] " \o stats_line_plain(lastRound.st))
           /\ lastRound.last = lastRound.st

C5_Witness ==
  /\ lastRound.valid
  /\ lastRound.prev # ZeroStats
  /\ lastRound.st = lastRound.prev
  /\ Len(lines_) = 2

\* C6 as stated: after shutdown_live_logs set the stop flag the loop pushes no
\* further line and runs at most the iteration in flight.
C6_NoLineAfterStop ==
  stopSeen => (afterStop = 0 /\ roundsAfterStop <= 1)

\* C6 as amended: while the stop flag is set, the loop runs at most the one
\* iteration that passed the check before the flag was set and pushes at most one
\* line in it; the loop ends only by reading the flag as set.
C6_AtMostOneRoundAfterStop ==
  /\ g_tick_stop => (roundsAfterStop <= 1 /\ afterStop <= 1)
  /\ kpc = "done" => stopSeen

C6_Witness ==
  /\ g_tick_stop
  /\ afterStop = 1
  /\ kpc = "done"

\* C7: the sampling loop ends only after the stop flag was set; a failed sample
\* does not end it.
C7_LoopEndsOnlyOnStop ==
  kpc \in {"done", "terminated"} => stopSeen

\* C8: critical sections of push and dump never overlap, and every returned dump
\* is the content the buffer had at one instant between the call and the return.
C8_NoTornRead ==
  /\ Cardinality({t \in Threads : tpc[t] \in {"push_body", "push_unlock", "dump_loop"}}) <= 1
  /\ \A t \in Readers :
       (tpc[t] = "idle" /\ ret[t] # NoRet) => \E s \in seen[t] : ret[t][2] = DumpOf(s)

C8_Witness ==
  \E t \in Readers :
    /\ tpc[t] = "idle"
    /\ ret[t] # NoRet
    /\ Cardinality(seen[t]) >= 2
    /\ Len(SplitLines(ret[t][2], <<>>)) = 2

\* C9: in every dump, two lines of the same writer appear in the order the writer
\* pushed them, and all lines appear in the order of the pushes.
C9_OrderPreserved ==
  \A t \in Readers :
    ret[t] # NoRet =>
      LET ls == SplitLines(ret[t][2], <<>>)
      IN \A i, j \in DOMAIN ls :
           i < j =>
             /\ LineWriter(ls[i]) = LineWriter(ls[j]) => LineNo(ls[i]) < LineNo(ls[j])
             /\ PosIn(pushed, ls[i]) > 0
             /\ PosIn(pushed, ls[i]) < PosIn(pushed, ls[j])

C9_Witness ==
  \E t \in Readers :
    /\ ret[t] # NoRet
    /\ \A w \in Writers : npush[w] >= 1
    /\ LET ls == SplitLines(ret[t][2], <<>>)
       IN /\ Len(ls) = 2
          /\ LineWriter(ls[1]) = LineWriter(ls[2])

\* C10: a request invokes at most one of the two strategies, and only the one of
\* the build: auth_ctx with the middleware, auth_legacy without.
C10_OneStrategy ==
  LET invoked == EventSet(req.events) \cap {"auth_ctx", "auth_legacy"}
  IN /\ Cardinality(invoked) <= 1
     /\ invoked \subseteq {IF middleware THEN "auth_ctx" ELSE "auth_legacy"}

C10_Witness ==
  /\ opt.auth_ctx # NULL
  /\ opt.auth_legacy # NULL
  /\ req.pc = "done"
  /\ req.route = "admin_hook"
  /\ EventSet(req.events) \cap {"auth_ctx", "auth_legacy"} # {}


\* C11: on a route installed with heavy only, no request is stopped before the
\* handler: the chain holds nothing but heavy_ctx, no strategy is consulted, and
\* every finished request ran the handler and carries x-vix-route-heavy: 1.
C11_HeavyOnlyNeverBlocks ==
  req.route = "heavy_only" =>
    /\ EventSet(req.events) \subseteq {"heavy", "body"}
    /\ req.pc = "chain" => req.chain \in {<<"heavy_ctx">>, <<>>}
    /\ (req.pc = "chain" /\ req.chain = <<>>) => HeavyHeader \in res.headers
    /\ req.pc = "done" =>
         /\ req.events = <<"heavy", "body">>
         /\ HeavyHeader \in res.headers
         /\ res.status = 200
         /\ res.body = PingBody

C11_Witness ==
  /\ req.route = "heavy_only"
  /\ req.pc = "done"
  /\ served = MaxRequests
  /\ HeavyHeader \in res.headers
  /\ "body" \in EventSet(req.events)


\* C12: on the route with require_auth and heavy both set, a request whose
\* strategy returned true runs the handler and its response carries
\* x-vix-route-heavy: 1; the marker is never attached before the strategy of the
\* build was evaluated.
C12_AuthThenHeavy ==
  req.route = "admin_hook" =>
    /\ (req.pc = "done" /\ req.verdict = "true") =>
         /\ "body" \in EventSet(req.events)
         /\ HeavyHeader \in res.headers
         /\ res.status = 501
    /\ "heavy" \in EventSet(req.events) =>
         LET auth == IF middleware THEN "auth_ctx" ELSE "auth_legacy"
         IN /\ PosIn(req.events, auth) > 0
            /\ PosIn(req.events, auth) < PosIn(req.events, "heavy")
    /\ HeavyHeader \in res.headers => "heavy" \in EventSet(req.events)

C12_Witness ==
  /\ req.route = "admin_hook"
  /\ req.pc = "done"
  /\ req.verdict = "true"
  /\ middleware
  /\ HeavyHeader \in res.headers


\* the last request served to GET {prefix}/peers
LastCall == calls[Len(calls)]

\* a directory with the bytes of every key replaced by zeroes
Redact(d) ==
  [id \in DOMAIN d |->
     [d[id] EXCEPT !.meta.public_key = [i \in DOMAIN @ |-> 0],
                   !.meta.session_key_32 = [i \in DOMAIN @ |-> 0]]]

\* C13: two requests that read the same directory are answered with the same
\* payload, whatever the instants at which they were served.
C13_SameDirectorySameOutput ==
  \A i, j \in DOMAIN calls :
    (calls[i].snapshot /\ calls[j].snapshot /\ calls[i].dir = calls[j].dir)
      => calls[i].res = calls[j].res

\* a payload with the two fields that count milliseconds up to the sampling
\* instant blanked
MaskAges(body) ==
  [body EXCEPT !.peers =
     [i \in DOMAIN body.peers |->
        [body.peers[i] EXCEPT !.last_seen_ms_ago = 0, !.handshake_age_ms = 0]]]

\* C13 as amended: two requests that read the same directory are answered with
\* the same payload when they sample the same instant, whatever the orders of
\* iteration; at different instants the payloads differ at most in
\* last_seen_ms_ago and handshake_age_ms.
C13_SameOutputUpToAges ==
  \A i, j \in DOMAIN calls :
    (calls[i].snapshot /\ calls[j].snapshot /\ calls[i].dir = calls[j].dir) =>
      /\ calls[i].now = calls[j].now => calls[i].res = calls[j].res
      /\ calls[i].res.status = calls[j].res.status
      /\ MaskAges(calls[i].res.body) = MaskAges(calls[j].res.body)

C13_Witness ==
  /\ Len(calls) = 2
  /\ calls[1].snapshot /\ calls[2].snapshot
  /\ calls[1].dir = calls[2].dir
  /\ Cardinality(DOMAIN calls[1].dir) = 2
  /\ calls[1].now # calls[2].now
  /\ calls[1].res # calls[2].res

\* the rank of a peer identifier in ascending order: "a" < "ab" < "b"
IdRank(id) ==
  CASE id = <<97>> -> 1
    [] id = <<97, 98>> -> 2
    [] id = <<98>> -> 3

\* C14: the peers array of a successful answer has one entry per peer of the
\* snapshot, in strictly ascending order of peer identifier whatever the order
\* of iteration, and total is the number of peers.
C14_SortedOnePerPeer ==
  \A c \in DOMAIN calls :
    calls[c].snapshot =>
      LET b == calls[c].res.body
      IN /\ b.ok
         /\ b.total = Cardinality(DOMAIN calls[c].dir)
         /\ Len(b.peers) = b.total
         /\ {b.peers[i].peer_id : i \in DOMAIN b.peers} = DOMAIN calls[c].dir
         /\ \A i, j \in DOMAIN b.peers :
              i < j => IdRank(b.peers[i].peer_id) < IdRank(b.peers[j].peer_id)

C14_Witness ==
  /\ calls # <<>>
  /\ LastCall.snapshot
  /\ shuffled
  /\ res = LastCall.res
  /\ res.body.total = 2

\* C15: two requests served at the same instant from directories that differ
\* only in the bytes of public_key and session_key_32 are answered with the same
\* payload.
C15_KeysOnlyByLength ==
  \A i, j \in DOMAIN calls :
    (calls[i].snapshot /\ calls[j].snapshot /\ calls[i].now = calls[j].now
       /\ Redact(calls[i].dir) = Redact(calls[j].dir))
      => calls[i].res = calls[j].res

C15_Witness ==
  /\ Len(calls) = 2
  /\ calls[1].snapshot /\ calls[2].snapshot
  /\ calls[1].now = calls[2].now
  /\ calls[1].dir # calls[2].dir
  /\ Redact(calls[1].dir) = Redact(calls[2].dir)
  /\ \E id \in DOMAIN calls[1].dir :
       /\ calls[1].dir[id].meta.public_key # calls[2].dir[id].meta.public_key
       /\ calls[1].dir[id].meta.session_key_32 # calls[2].dir[id].meta.session_key_32

\* the object rendered for peer id in a successful answer
Rendered(c, id) ==
  LET ps == c.res.body.peers
  IN ps[CHOOSE i \in DOMAIN ps : ps[i].peer_id = id]

\* C16: a peer with neither endpoint nor handshake is rendered with
\* has_endpoint and has_handshake false, empty scheme and host, port 0, stage
\* "none", handshake age -1 and nonces and ts_ms 0, under the same keys as a peer
\* that has both.
C16_AbsentPartsAsSentinels ==
  \A c \in DOMAIN calls :
    calls[c].snapshot =>
      \A id \in DOMAIN calls[c].dir :
        LET p == calls[c].dir[id]
            o == Rendered(calls[c], id)
        IN (~p.endpoint.has_value /\ ~p.handshake.has_value) =>
             /\ o.has_endpoint = FALSE /\ o.has_handshake = FALSE
             /\ o.scheme = "" /\ o.host = "" /\ o.port = 0
             /\ o.endpoint = ""
             /\ o.handshake_stage = "none" /\ o.handshake_age_ms = -1
             /\ o.nonce_a = 0 /\ o.nonce_b = 0 /\ o.ts_ms = 0
             /\ \A id2 \in DOMAIN calls[c].dir :
                  DOMAIN Rendered(calls[c], id2) = DOMAIN o

C16_Witness ==
  /\ calls # <<>>
  /\ LastCall.snapshot
  /\ \E id, id2 \in DOMAIN LastCall.dir :
       /\ ~LastCall.dir[id].endpoint.has_value
       /\ ~LastCall.dir[id].handshake.has_value
       /\ LastCall.dir[id2].endpoint.has_value
       /\ LastCall.dir[id2].handshake.has_value

\* the whole milliseconds in a span of d >= 0 ticks
WholeMs(d) == CHOOSE m \in 0 .. d : m * TicksPerMs <= d /\ d < (m + 1) * TicksPerMs

\* C17 as stated: a present handshake is rendered with the whole milliseconds
\* from its start to the sampling instant, and -1 is rendered only for an absent
\* handshake.
C17_AgeOfEveryPresentHandshake ==
  \A c \in DOMAIN calls :
    calls[c].snapshot =>
      \A id \in DOMAIN calls[c].dir :
        LET hs == calls[c].dir[id].handshake
            o == Rendered(calls[c], id)
        IN /\ hs.has_value =>
                o.handshake_age_ms = WholeMs(calls[c].now - hs.value.started_at)
           /\ o.handshake_age_ms = -1 => ~hs.has_value

\* C17 as amended: a present handshake whose start instant is set is rendered
\* with the whole milliseconds from its start to the sampling instant; -1 is
\* rendered only for an absent handshake or one whose start instant is zero
\* (never set), and always for those.
C17_AgeOfStartedHandshake ==
  \A c \in DOMAIN calls :
    calls[c].snapshot =>
      \A id \in DOMAIN calls[c].dir :
        LET hs == calls[c].dir[id].handshake
            o == Rendered(calls[c], id)
        IN /\ (hs.has_value /\ hs.value.started_at # 0) =>
                o.handshake_age_ms = WholeMs(calls[c].now - hs.value.started_at)
           /\ o.handshake_age_ms = -1 <=>
                (~hs.has_value \/ hs.value.started_at = 0)

C17_Witness ==
  /\ calls # <<>>
  /\ LastCall.snapshot
  /\ \E id, id2 \in DOMAIN LastCall.dir :
       /\ LastCall.dir[id].handshake.has_value
       /\ LastCall.dir[id].handshake.value.started_at # 0
       /\ Rendered(LastCall, id).handshake_age_ms = 1
       /\ LastCall.dir[id2].handshake.has_value
       /\ LastCall.dir[id2].handshake.value.started_at = 0
       /\ Rendered(LastCall, id2).handshake_age_ms = -1

\* C18: with no node the request is answered 503 with ok false and an error
\* token, no peers array, and peers_snapshot is not called.
C18_NoNodeIs503 ==
  \A c \in DOMAIN calls :
    ~calls[c].node =>
      /\ calls[c].res.status = 503
      /\ calls[c].res.body.ok = FALSE
      /\ calls[c].res.body.error = "p2p_node_unavailable"
      /\ DOMAIN calls[c].res.body = {"ok", "error"}
      /\ ~calls[c].snapshot

C18_Witness ==
  /\ calls # <<>>
  /\ ~LastCall.node
  /\ res = LastCall.res
  /\ res.status = 503
  /\ DOMAIN dir # {}


\* the sampling tasks that are running
LiveTasks == IF kpc \in {"check", "body", "sleep"} THEN 1 ELSE 0

\* a registerRoutes call that took g_tick_started and has not yet started the task
Starting(c) == rpc[c] \in {"store", "spawn"}

\* C19: there is never more than one sampling task; g_tick_started is taken only
\* by a call with enable_live_logs and enable_logs both true, which then starts
\* the task, so a call without them neither starts a task nor takes the flag
\* from a later call that has them.
C19_ZeroOrOneTask ==
  /\ [](/\ loops \in {0, 1}
        /\ LiveTasks <= loops
        /\ Cardinality({c \in Callers : Starting(c)}) + loops <= 1
        /\ g_tick_started <=> (loops = 1 \/ \E c \in Callers : Starting(c))
        /\ \A c \in Callers :
             Starting(c) => (ropt[c].enable_live_logs /\ ropt[c].enable_logs))
  /\ [][loops' # loops =>
          \E c \in Callers :
            /\ rpc[c] = "spawn" /\ rpc'[c] = "done"
            /\ ropt[c].enable_live_logs /\ ropt[c].enable_logs
            /\ loops' = loops + 1]_vars

C19_Witness ==
  /\ \A c \in Callers : rpc[c] = "done"
  /\ qualDone = 1
  /\ loops = 1
  /\ LiveTasks = 1

\* the position in a dump of the first character of line i of ls
RECURSIVE Offset(_, _)
Offset(ls, i) == IF i <= 1 THEN 0 ELSE Offset(ls, i - 1) + Len(ls[i - 1]) + 1

\* text is the lines of ls in order, each followed by one line break
IsDumpOfLines(text, ls) ==
  /\ Len(text) = Offset(ls, Len(ls) + 1)
  /\ \A i \in DOMAIN ls :
       /\ \A k \in DOMAIN ls[i] : text[Offset(ls, i) + k] = ls[i][k]
       /\ text[Offset(ls, i) + Len(ls[i]) + 1] = NL

\* C20: a returned dump is the lines the buffer held, in the order they were
\* pushed, each followed by exactly one line break; it is empty when nothing was
\* pushed; and once returned it changes only by the same thread returning from
\* another dump, never by a push.
C20_DumpFormat ==
  /\ [](\A t \in Readers :
          ret[t] # NoRet =>
            /\ tpc[t] = "idle" => \E ls \in seen[t] : IsDumpOfLines(ret[t][2], ls)
            /\ \E n \in 0 .. Len(pushed) :
                 \E a \in 1 .. Len(pushed) - n + 1 :
                   IsDumpOfLines(ret[t][2], SubSeq(pushed, a, a + n - 1))
            /\ pushed = <<>> => ret[t][2] = <<>>)
  /\ [][\A t \in Readers :
          (ret[t] # NoRet /\ ret'[t] # ret[t]) =>
            (tpc[t] = "dump_loop" /\ tpc'[t] = "idle")]_vars

C20_Witness ==
  \E t \in Readers :
    /\ tpc[t] = "idle"
    /\ ret[t] # NoRet
    /\ Len(ret[t][2]) = 6
    /\ lines_ \notin seen[t]
    /\ Len(pushed) >= 3


\* C21: a request to POST {prefix}/admin/hook that passed the gate is answered
\* 501 with the not_implemented envelope, whatever the strategy wrote before;
\* the handler body runs for no other request, and a status of the 2xx class is
\* only ever that of a response nothing was written to.
C21_AlwaysNotImplemented ==
  (req.route = "admin_hook" /\ req.pc = "done") =>
    /\ req.verdict = "true" =>
         /\ res.status = 501
         /\ res.body = NotImplementedBody
         /\ res.body.ok = FALSE
         /\ res.body.error = "not_implemented"
    /\ "body" \in EventSet(req.events) <=> req.verdict = "true"
    /\ res.status \in 200 .. 299 =>
         /\ res.body = NoBody
         /\ "body" \notin EventSet(req.events)

C21_Witness ==
  /\ req.route = "admin_hook"
  /\ req.pc = "done"
  /\ req.verdict = "true"
  /\ req.afterAuth.status = 403
  /\ res.status = 501
  /\ served = MaxRequests

\* C22: the task is started with the interval of the call that starts it, 1000
\* when that call's stats_every_ms is <= 0, and with that call's runtime; no
\* later step changes either, and every sleep of the loop lasts that interval.
C22_WinnerSetsIntervalAndRuntime ==
  /\ [][loops' # loops =>
          \E c \in Callers :
            /\ rpc[c] = "spawn" /\ rpc'[c] = "done"
            /\ every' = (IF ropt[c].stats_every_ms <= 0 THEN 1000
                         ELSE ropt[c].stats_every_ms)
            /\ rt' = rrt[c]
            /\ rrt[c] = c]_vars
  /\ [][loops = 1 => (every' = every /\ rt' = rt)]_vars
  /\ [][slept' # slept => (kpc = "sleep" /\ slept' = every /\ every > 0)]_vars

C22_Witness ==
  /\ loops = 1
  /\ rt = 2
  /\ every = 1000
  /\ slept = 1000
  /\ qualDone >= 2
  /\ \A c \in Callers : rpc[c] = "done"


\* every one of the nine counters of st is zero
AllZero(st) ==
  /\ st.peers_total = 0 /\ st.peers_connected = 0
  /\ st.handshakes_started = 0 /\ st.handshakes_completed = 0
  /\ st.connect.connect_attempts = 0 /\ st.connect.connect_deduped = 0
  /\ st.connect.connect_failures = 0 /\ st.connect.backoff_skips = 0
  /\ st.connect.tracked_endpoints = 0

\* the lines the sampling loop pushed
StatsLines == {i \in DOMAIN pushed : pushed[i] # "[p2p_http] routes registered"}

\* C23: the loop starts from the all-zero snapshot and keeps it until it pushes
\* its first line; from the all-zero snapshot an iteration pushes a line if and
\* only if its sample has a non-zero counter, so the first sample does, and
\* while the samples are all zero no stats line is pushed.
C23_ZeroBaseline ==
  /\ []((ticks = 0 \/ StatsLines = {}) => AllZero(last))
  /\ []((lastRound.valid /\ ticks = 1) =>
          /\ AllZero(lastRound.prev)
          /\ (lastRound.after # lastRound.before) <=> ~AllZero(lastRound.st))
  /\ [][(ticks' # ticks /\ AllZero(last)) =>
          /\ (pushed' # pushed) <=> ~AllZero(lastRound'.st)
          /\ AllZero(lastRound'.st) => (lines_' = lines_ /\ AllZero(last'))]_vars

C23_Witness ==
  /\ ticks = MaxTicks
  /\ lastRound.valid
  /\ AllZero(lastRound.st)
  /\ AllZero(last)
  /\ StatsLines = {}
  /\ kpc = "check"


\* the request was rejected: no strategy of the build was configured, or the
\* strategy returned false
Rejected == "unauthorized" \in EventSet(req.events) \/ req.verdict = "false"

\* C24: on the route with require_auth and heavy, in either build, a rejected
\* request never carries x-vix-route-heavy: 1, at no point of its processing, and
\* a finished request carries it if and only if its strategy returned true.
C24_MarkerIffAuthorized ==
  req.route = "admin_hook" =>
    /\ Rejected => HeavyHeader \notin res.headers
    /\ HeavyHeader \in res.headers => req.verdict = "true"
    /\ req.pc = "done" => (HeavyHeader \in res.headers <=> req.verdict = "true")
    /\ req.pc = "done" => (Rejected <=> req.verdict # "true")

C24_Witness ==
  /\ req.route = "admin_hook"
  /\ req.pc = "done"
  /\ ~middleware
  /\ req.verdict = "false"
  /\ res.status = 403
  /\ HeavyHeader \notin res.headers

\* a rejection for want of a strategy in the middleware build
C24_WitnessNoStrategy ==
  /\ req.route = "admin_hook"
  /\ req.pc = "done"
  /\ middleware
  /\ req.events = <<"unauthorized">>
  /\ HeavyHeader \notin res.headers


\* only the strategy of the other execution mode is configured
OnlyOtherModeConfigured ==
  \/ middleware /\ opt.auth_ctx = NULL /\ opt.auth_legacy # NULL
  \/ ~middleware /\ opt.auth_legacy = NULL /\ opt.auth_ctx # NULL

\* C25: with only the strategy of the other execution mode configured (auth_legacy
\* with the middleware, auth_ctx without it), no strategy is ever consulted and
\* every request to the gated route ends with 401 and the unauthorized envelope,
\* without the handler body or the heavy marker.
C25_OtherModeIgnored ==
  (OnlyOtherModeConfigured /\ req.route = "admin_hook") =>
    /\ EventSet(req.events) \subseteq {"unauthorized"}
    /\ req.verdict = "none"
    /\ req.pc = "done" =>
         /\ req.events = <<"unauthorized">>
         /\ res = StatusJson(FreshResponse, 401, UnauthorizedBody)
         /\ res.body.ok = FALSE
         /\ res.body.error = "unauthorized"

C25_Witness ==
  /\ ~middleware
  /\ opt.auth_legacy = NULL
  /\ opt.auth_ctx # NULL
  /\ req.route = "admin_hook"
  /\ req.pc = "done"
  /\ res.status = 401
  /\ served = MaxRequests

\* the same case in the middleware build
C25_WitnessMiddleware ==
  /\ middleware
  /\ opt.auth_ctx = NULL
  /\ opt.auth_legacy # NULL
  /\ req.route = "admin_hook"
  /\ req.pc = "done"
  /\ res.status = 401


\* the last character of the text s
Back(s) == s[Len(s)]

\* C26: the string join_prefix returns starts with '/', ends with '/' only when
\* it is "/" itself, and, when neither normalized part is empty or the path "/",
\* is the normalized base, then exactly one '/', then the rest of the normalized
\* path; normalizing a normalized base or path leaves it unchanged.
C26_JoinedPath ==
  jpc = "joined" =>
    LET b == Normalized(jbase)
        p == Normalized(jpath)
    IN /\ jret # <<>>
       /\ Head(jret) = "/"
       /\ Back(jret) = "/" => jret = <<"/">>
       /\ (b # <<>> /\ p \notin {<<>>, <<"/">>}) =>
            /\ jret = b \o p
            /\ jret[Len(b)] # "/"
            /\ jret[Len(b) + 1] = "/"
            /\ jret[Len(b) + 2] # "/"
       /\ Normalized(b) = b
       /\ Normalized(p) = p

\* registerRoutes with the prefix "/" has computed the path of GET /ping: "//ping"
C26_DoubleSlashUnderRootPrefix ==
  /\ jpc = "joined"
  /\ prefix = <<"/">>
  /\ jpath = RoutePath("ping")
  /\ jret = <<"/", "/", "p", "i", "n", "g">>

\* a text with two adjacent '/'
HasDoubleSlash(s) == \E i \in 1 .. Len(s) - 1 : s[i] = "/" /\ s[i + 1] = "/"

\* The statement of C26 holds of every call whose base is not made of '/' alone
\* and whose path does not start with two '/'.
JoinedPathForProperParts ==
  (Normalized(jbase) # <<"/">> /\ ~HasDoubleSlash(SubSeq(jpath, 1, Min(2, Len(jpath)))))
    => C26_JoinedPath

====
